---- MODULE Spec2Model ----
(***************************************************************************)
(* UnrealEdDiffLauncher: the inference of the Unreal editor binary and the *)
(* project file from an asset path (unrealed_diff_launcher/__init__.py)    *)
(* and the command line that launches the editor (__main__.py).            *)
(*                                                                         *)
(* The file system is read-only during an invocation.  It is modelled as   *)
(* the chain of directories above the asset paths given on the command     *)
(* line: fs[1] is the innermost directory, fs[Len(fs)] the outermost one   *)
(* that is modelled.  Every directory further out, up to the file system   *)
(* root, is taken to be a plain directory (not named "Engine", holding no  *)
(* *.uproject file), at which the walk only continues.  A path given on    *)
(* the command line is the index of the directory that holds the file.     *)
(***************************************************************************)
EXTENDS Integers, Sequences, FiniteSets, TLC

\* Longest modelled chain of ancestor directories.
MaxDepth == 2
\* Largest number of *.uproject regular files in one directory.
MaxUprojects == 2

VARIABLES
    fs,             \* the chain of ancestor directories (never written)
    parsed_args,    \* argparse result of main: the mode and the paths
    pc,             \* position of main: "parsed", "walk", "returned", "exit"
    test_path,      \* argument of the running try_infer_editor_and_project
    dir_idx,        \* the ancestor the for loop of the walk is at
    locator_calls,  \* the Binary Locator calls of the latest loop iteration
    ret,            \* how try_infer_editor_and_project ended
    spawned,        \* the subprocess.run calls made, in order
    uncaught,       \* the exception that left main, if any
    exit_status     \* <<status>> once the process has exited, else <<>>

vars == <<fs, parsed_args, pc, test_path, dir_idx, locator_calls, ret,
          spawned, uncaught, exit_status>>

-----------------------------------------------------------------------------
(* Python values *)

PyNone == [type |-> "NoneType"]
PyGenerator(items) == [type |-> "generator", items |-> items]
PyList(items) == [type |-> "list", items |-> items]
PyTuple(editor, project) ==
    [type |-> "tuple", editor |-> editor, project |-> project]

\* len(v) is defined for a list, and raises TypeError for a generator.
SupportsLen(v) == v.type = "list"
\* list(v) and iteration are defined for a generator and a list, and raise
\* TypeError for None.
Iterable(v) == v.type \in {"generator", "list"}

-----------------------------------------------------------------------------
(* Paths and the file system *)

\* The ancestor directory fs[i].
DirPath(i) == [kind |-> "dir", idx |-> i]
\* fs[i].parent / "Engine".
EngineSiblingPath(i) == [kind |-> "engine_sibling", idx |-> i]
\* root / "Binaries" / "Win64" / filename
BinaryPath(root, filename) == [root |-> root, filename |-> filename]
\* The k-th regular file that dir_path.glob("*.uproject") lists in fs[i].
ProjectFilePath(i, k) == [kind |-> "uproject", dir |-> i, file |-> k]

TargetNames == <<"UnrealEditor">>
Platforms == <<"Win64">>
\* The build configurations enumerated in the opposite order.
BuildConfigurations_Swapped == <<"DebugGame", "Development">>
BuildConfigurations == <<"Development", "DebugGame">>

\* f"{target_name}-{platform}-{build_configuration}.exe"
BinaryFilename(target_name, platform, build_configuration) ==
    <<target_name, platform, build_configuration, "exe">>

\* The list the three nested loops append to, in their order.
candidate_binary_filenames ==
    LET nT == Len(TargetNames)
        nP == Len(Platforms)
        nC == Len(BuildConfigurations)
    IN  [k \in 1..(nT * nP * nC) |->
            BinaryFilename(TargetNames[((k - 1) \div (nP * nC)) + 1],
                           Platforms[(((k - 1) \div nC) % nP) + 1],
                           BuildConfigurations[((k - 1) % nC) + 1])]

DevelopmentExe == BinaryFilename("UnrealEditor", "Win64", "Development")
DebugGameExe == BinaryFilename("UnrealEditor", "Win64", "DebugGame")
EditorExes == {DevelopmentExe, DebugGameExe}

\* What a directory can hold under Binaries/Win64: the subdirectory may be
\* missing; when it is there, any of the editor binaries may be regular files.
BinaryLayouts ==
    {[binaries_dir |-> FALSE, binaries |-> {}]} \cup
    {[binaries_dir |-> TRUE, binaries |-> S] : S \in SUBSET EditorExes}

NoBinaries == [binaries_dir |-> FALSE, binaries |-> {}]
NoEngineSibling == [exists |-> FALSE, own |-> NoBinaries]

\* The directory "Engine" next to an ancestor: missing, or there with any layout.
SiblingLayouts ==
    {NoEngineSibling} \cup {[exists |-> TRUE, own |-> b] : b \in BinaryLayouts}

DirNames == {"Engine", "MyGame"}

\* A directory yields a binary when Binaries/Win64 holds an editor binary.
HoldsBinary(layout) == layout.binaries_dir /\ layout.binaries # {}

\* The parts of a directory that no walk reads are kept at their defaults:
\* the descriptors and the sibling of a directory named "Engine", the
\* binaries of a directory without a descriptor, the sibling of a directory
\* without exactly one descriptor, and the sibling of a project directory
\* that holds a binary itself.
Canonical(d) ==
    /\ d.name = "Engine" => d.uprojects = 0 /\ d.engine_sibling = NoEngineSibling
    /\ (d.name # "Engine" /\ d.uprojects = 0) => d.own = NoBinaries
    /\ (d.name # "Engine" /\ d.uprojects # 1) =>
            d.engine_sibling = NoEngineSibling
    /\ (d.name # "Engine" /\ d.uprojects = 1 /\ HoldsBinary(d.own)) =>
            d.engine_sibling = NoEngineSibling

Directories ==
    {d \in [name : DirNames, uprojects : 0..MaxUprojects,
            own : BinaryLayouts, engine_sibling : SiblingLayouts] : Canonical(d)}

FileSystems == UNION {[1..n -> Directories] : n \in 1..MaxDepth}

\* pathlib.Path.exists() of a directory path.
Exists(path) ==
    IF path.kind = "dir" THEN TRUE ELSE fs[path.idx].engine_sibling.exists

\* The Binaries/Win64 layout under a root directory.
LayoutOf(root) ==
    IF root.kind = "dir" THEN fs[root.idx].own
    ELSE fs[root.idx].engine_sibling.own

\* test_path.parents of a file in fs[p]: innermost first.
Parents(p) == [k \in 1..(Len(fs) - p + 1) |-> p + k - 1]

-----------------------------------------------------------------------------
(* __init__.py *)

\* detect_binaries_from_engine_or_project_root: None when Binaries/Win64 is
\* missing, else a generator over the candidates that are regular files.
detect_binaries_from_engine_or_project_root(engine_or_project_root) ==
    LET platform_binaries_dir == LayoutOf(engine_or_project_root)
    IN  IF ~platform_binaries_dir.binaries_dir
        THEN PyNone
        ELSE PyGenerator(
                SelectSeq([k \in DOMAIN candidate_binary_filenames |->
                              BinaryPath(engine_or_project_root,
                                         candidate_binary_filenames[k])],
                          LAMBDA file_path :
                              file_path.filename \in platform_binaries_dir.binaries))

\* One record per locator call: the root asked about and the value returned.
LocatorCall(root) ==
    [root |-> root, value |-> detect_binaries_from_engine_or_project_root(root)]

\* How one iteration of the for loop ends.
Continue(calls) == [kind |-> "continue", calls |-> calls]
Return(value, calls) == [kind |-> "return", value |-> value, calls |-> calls]
Raise(exc, path, dir, calls) ==
    [kind |-> "raise", exc |-> exc, path |-> path, dir |-> dir, calls |-> calls]

\* "unreal_binaries is not None and len(unreal_binaries) > 0", then
\* "return (unreal_binaries[0], project)", else whatever follows the if.
\* len() of a value that has no length raises TypeError.
ReturnFirstOr(unreal_binaries, project, path, dir, calls, otherwise) ==
    IF unreal_binaries = PyNone
    THEN otherwise
    ELSE IF ~SupportsLen(unreal_binaries)
    THEN Raise("TypeError", path, dir, calls)
    ELSE IF Len(unreal_binaries.items) > 0
    THEN Return(PyTuple(unreal_binaries.items[1], project), calls)
    ELSE otherwise

\* The branch for a directory named "Engine".
EngineBranch(path, i) ==
    LET calls == <<LocatorCall(DirPath(i))>>
        unreal_binaries == calls[1].value
    IN  ReturnFirstOr(unreal_binaries, PyNone, path, i, calls, Continue(calls))

\* list(path for path in dir_path.glob("*.uproject") if path.is_file())
project_file_paths(i) == [k \in 1..fs[i].uprojects |-> ProjectFilePath(i, k)]

\* A match that takes "case 1" for any non-empty list of descriptors.
MatchCase_AtLeastOne(n) == IF n = 0 THEN "0" ELSE "1"

\* Which case of "match len(project_file_paths)" is taken.
MatchCase(n) == IF n = 0 THEN "0" ELSE IF n = 1 THEN "1" ELSE "_"

\* case 1: the binaries of the project root, else of the adjacent Engine
\* directory.  list() of None raises TypeError.
OneProjectBranch(path, i) ==
    LET project_file_path == project_file_paths(i)[1]
        own == <<LocatorCall(DirPath(i))>>
        both == Append(own, LocatorCall(EngineSiblingPath(i)))
    IN  IF ~Iterable(own[1].value)
        THEN Raise("TypeError", path, i, own)
        ELSE ReturnFirstOr(PyList(own[1].value.items), project_file_path,
                 path, i, own,
                 IF ~Exists(EngineSiblingPath(i))
                 THEN Continue(own)
                 ELSE IF ~Iterable(both[2].value)
                 THEN Raise("TypeError", path, i, both)
                 ELSE ReturnFirstOr(PyList(both[2].value.items),
                          project_file_path, path, i, both, Continue(both)))

\* The branch for a directory that is not named "Engine".
ProjectBranch(path, i) ==
    LET case == MatchCase(Len(project_file_paths(i)))
    IN  IF case = "0" THEN Continue(<<>>)
        ELSE IF case = "1" THEN OneProjectBranch(path, i)
        ELSE Raise("RuntimeError", path, i, <<>>)

\* The body of "for dir_path in test_path.parents" at the ancestor fs[i].
Iteration(path, i) ==
    IF fs[i].name = "Engine" THEN EngineBranch(path, i) ELSE ProjectBranch(path, i)

\* try_infer_editor_and_project as a function of the path: the walk from the
\* ancestor i outwards; falling off the loop returns None.
RECURSIVE WalkFrom(_, _)
WalkFrom(path, i) ==
    IF i > Len(fs) THEN Return(PyNone, <<>>)
    ELSE LET it == Iteration(path, i)
         IN  IF it.kind = "continue" THEN WalkFrom(path, i + 1) ELSE it

try_infer_editor_and_project(path) == WalkFrom(path, Parents(path)[1])

-----------------------------------------------------------------------------
(* The walk of try_infer_editor_and_project, one loop iteration per step *)

NoPath == 0
NotReturned == [kind |-> "running"]
NoException == [exc |-> "none", msg |-> "none"]

\* The call: test_path.resolve(), and the loop starts at the innermost parent.
Call(path) ==
    /\ test_path' = path
    /\ dir_idx' = Parents(path)[1]
    /\ pc' = "walk"
    /\ UNCHANGED <<fs, parsed_args, locator_calls, ret, spawned, uncaught,
                   exit_status>>

\* The effect of one iteration: go on to the next parent, or leave the function.
EndIteration(it) ==
    /\ locator_calls' = it.calls
    /\ IF it.kind = "continue"
       THEN dir_idx' = dir_idx + 1 /\ UNCHANGED <<pc, ret>>
       ELSE pc' = "returned" /\ ret' = it /\ UNCHANGED dir_idx
    /\ UNCHANGED <<fs, parsed_args, test_path, spawned, uncaught, exit_status>>

AtDir == pc = "walk" /\ dir_idx \in 1..Len(fs)

VisitEngineDir ==
    /\ AtDir
    /\ fs[dir_idx].name = "Engine"
    /\ EndIteration(Iteration(test_path, dir_idx))

VisitDirWithoutProject ==
    /\ AtDir
    /\ fs[dir_idx].name # "Engine"
    /\ MatchCase(Len(project_file_paths(dir_idx))) = "0"
    /\ EndIteration(Iteration(test_path, dir_idx))

VisitProjectDir ==
    /\ AtDir
    /\ fs[dir_idx].name # "Engine"
    /\ MatchCase(Len(project_file_paths(dir_idx))) = "1"
    /\ EndIteration(Iteration(test_path, dir_idx))

VisitAmbiguousDir ==
    /\ AtDir
    /\ fs[dir_idx].name # "Engine"
    /\ MatchCase(Len(project_file_paths(dir_idx))) = "_"
    /\ EndIteration(Iteration(test_path, dir_idx))

\* The loop ran out of parents: the function ends without a return statement.
WalkExhausted ==
    /\ pc = "walk"
    /\ dir_idx > Len(fs)
    /\ pc' = "returned"
    /\ ret' = Return(PyNone, <<>>)
    /\ locator_calls' = <<>>
    /\ UNCHANGED <<fs, parsed_args, test_path, dir_idx, spawned, uncaught,
                   exit_status>>

-----------------------------------------------------------------------------
(* __main__.py *)

\* Exit status of the interpreter when an exception leaves main.
UncaughtExitStatus == 1
\* Exit statuses of the editor process.
ReturnCodes == {0, 1}

\* parse_args: the paths are files in the directories of the chain.
ParsedArgs(chain) ==
    {[mode |-> "diff", left |-> l, right |-> r] :
        l \in 1..Len(chain), r \in 1..Len(chain)} \cup
    {[mode |-> "merge", local |-> l] : l \in 1..Len(chain)}

\* The arguments the generator of the diff mode infers from, in order.
DiffInferenceArgs == <<"left", "right">>

\* The exception is swallowed and main returns 0.
Abort_ExitsZero(exc, msg) ==
    /\ uncaught' = [exc |-> exc, msg |-> msg]
    /\ exit_status' = <<0>>
    /\ pc' = "exit"
    /\ UNCHANGED <<fs, parsed_args, test_path, dir_idx, locator_calls, ret,
                   spawned>>

\* An exception leaves main: traceback, and a non-zero exit status.
Abort(exc, msg) ==
    /\ uncaught' = [exc |-> exc, msg |-> msg]
    /\ exit_status' = <<UncaughtExitStatus>>
    /\ pc' = "exit"
    /\ UNCHANGED <<fs, parsed_args, test_path, dir_idx, locator_calls, ret,
                   spawned>>

\* subprocess.run([editor, project, "-diff", ...]) and "return returncode".
Launch(element, operands) ==
    \E returncode \in ReturnCodes :
        /\ spawned' = Append(spawned,
                [editor |-> element.editor, project |-> element.project,
                 flag |-> "-diff", operands |-> operands])
        /\ exit_status' = <<returncode>>
        /\ pc' = "exit"
        /\ UNCHANGED <<fs, parsed_args, test_path, dir_idx, locator_calls, ret,
                       uncaught>>

\* diff: the for loop pulls the first element of the generator, which runs
\* the inference for the first argument.
DiffInfer ==
    /\ pc = "parsed"
    /\ parsed_args.mode = "diff"
    /\ Call(parsed_args[DiffInferenceArgs[1]])

\* diff: the first element is None; the loop body raises.
DiffNotFound ==
    /\ pc = "returned"
    /\ parsed_args.mode = "diff"
    /\ ret.kind = "return"
    /\ ret.value = PyNone
    /\ Abort("RuntimeError", "Failed to find, based on left or right")

\* diff: the first element is a pair; the loop body runs the editor and returns.
DiffLaunch ==
    /\ pc = "returned"
    /\ parsed_args.mode = "diff"
    /\ ret.kind = "return"
    /\ ret.value # PyNone
    /\ Launch(ret.value, <<"left", "right">>)

MergeInfer ==
    /\ pc = "parsed"
    /\ parsed_args.mode = "merge"
    /\ Call(parsed_args.local)

MergeNotFound ==
    /\ pc = "returned"
    /\ parsed_args.mode = "merge"
    /\ ret.kind = "return"
    /\ ret.value = PyNone
    /\ Abort("RuntimeError", "Failed to find, based on local")

MergeLaunch ==
    /\ pc = "returned"
    /\ parsed_args.mode = "merge"
    /\ ret.kind = "return"
    /\ ret.value # PyNone
    /\ Launch(ret.value, <<"remote", "local", "base", "result">>)

\* An exception raised inside the inference is not caught anywhere in main.
InferenceRaised ==
    /\ pc = "returned"
    /\ ret.kind = "raise"
    /\ Abort(ret.exc, "from try_infer_editor_and_project")

-----------------------------------------------------------------------------

Init ==
    /\ fs \in FileSystems
    /\ parsed_args \in ParsedArgs(fs)
    /\ pc = "parsed"
    /\ test_path = NoPath
    /\ dir_idx = 0
    /\ locator_calls = <<>>
    /\ ret = NotReturned
    /\ spawned = <<>>
    /\ uncaught = NoException
    /\ exit_status = <<>>

Next ==
    \/ DiffInfer
    \/ MergeInfer
    \/ VisitEngineDir
    \/ VisitDirWithoutProject
    \/ VisitProjectDir
    \/ VisitAmbiguousDir
    \/ WalkExhausted
    \/ DiffNotFound
    \/ DiffLaunch
    \/ MergeNotFound
    \/ MergeLaunch
    \/ InferenceRaised

Spec == Init /\ [][Next]_vars

-----------------------------------------------------------------------------
(* Vocabulary of the properties *)

Ancestors == IF test_path = NoPath THEN {} ELSE test_path..Len(fs)

\* The loop iteration at the ancestor fs[i] has run.
Visited(i) ==
    /\ i \in Ancestors
    /\ \/ dir_idx > i
       \/ dir_idx = i /\ pc \in {"returned", "exit"}

\* The walk went on to the next ancestor after fs[i].
WentOn(i) == i \in Ancestors /\ dir_idx > i

Finished == pc \in {"returned", "exit"}

\* The inference returned the pair (editor, project) at the ancestor fs[i].
ReturnedPairAt(i, editor, project) ==
    /\ Finished
    /\ dir_idx = i
    /\ ret.kind = "return"
    /\ ret.value = PyTuple(editor, project)

ReturnedNone == Finished /\ ret.kind = "return" /\ ret.value = PyNone
Succeeded == Finished /\ ret.kind = "return" /\ ret.value # PyNone

\* The inference raised the ambiguity error for the ancestor fs[i].
AmbiguityErrorAt(i) ==
    /\ Finished
    /\ ret.kind = "raise"
    /\ ret.exc = "RuntimeError"
    /\ ret.dir = i
    /\ ret.path = test_path

\* Development before DebugGame.
FirstRecognized(layout) ==
    IF DevelopmentExe \in layout.binaries THEN DevelopmentExe ELSE DebugGameExe

IsEngineDir(i) == fs[i].name = "Engine"
IsProjectDir(i) == fs[i].name # "Engine" /\ fs[i].uprojects = 1
IsAmbiguousDir(i) == fs[i].name # "Engine" /\ fs[i].uprojects >= 2
SiblingHoldsBinary(i) ==
    fs[i].engine_sibling.exists /\ HoldsBinary(fs[i].engine_sibling.own)

\* An ancestor at which the walk of section 4.2 ends.
Qualifying(i) ==
    \/ IsEngineDir(i) /\ HoldsBinary(fs[i].own)
    \/ IsProjectDir(i) /\ (HoldsBinary(fs[i].own) \/ SiblingHoldsBinary(i))
    \/ IsAmbiguousDir(i)

NearestQualifying(i) ==
    /\ i \in Ancestors
    /\ Qualifying(i)
    /\ \A j \in Ancestors : j < i => ~Qualifying(j)

-----------------------------------------------------------------------------
(* Properties *)

\* C1: when the walk reaches an ancestor named "Engine" whose Binaries/Win64
\* holds a recognized editor binary, the inference returns (first such
\* binary, no project) there.
C1_EngineRootResolves ==
    \A i \in 1..Len(fs) :
        (Visited(i) /\ IsEngineDir(i) /\ HoldsBinary(fs[i].own)) =>
            ReturnedPairAt(i,
                BinaryPath(DirPath(i), FirstRecognized(fs[i].own)), PyNone)

\* C2: when the walk reaches a project directory (exactly one descriptor)
\* without a binary of its own, Binaries/Win64 missing included, and the
\* sibling Engine directory holds a binary, the inference returns (first
\* binary of the sibling, the descriptor).
C2_SiblingEngineResolves ==
    \A i \in 1..Len(fs) :
        (Visited(i) /\ IsProjectDir(i) /\ ~HoldsBinary(fs[i].own)
            /\ SiblingHoldsBinary(i)) =>
            ReturnedPairAt(i,
                BinaryPath(EngineSiblingPath(i),
                           FirstRecognized(fs[i].engine_sibling.own)),
                ProjectFilePath(i, 1))

\* C3: when the walk reaches a project directory whose Binaries/Win64 holds
\* a recognized binary, the inference returns (b, the descriptor) where b is
\* the Development binary if it exists and the DebugGame binary otherwise.
C3_ProjectRootResolves ==
    \A i \in 1..Len(fs) :
        (Visited(i) /\ IsProjectDir(i) /\ HoldsBinary(fs[i].own)) =>
            ReturnedPairAt(i,
                BinaryPath(DirPath(i),
                    IF DevelopmentExe \in fs[i].own.binaries
                    THEN DevelopmentExe ELSE DebugGameExe),
                ProjectFilePath(i, 1))

\* C3 witness: both binaries exist in the project root and Development is returned.
C3_Witness ==
    \E i \in 1..Len(fs) :
        /\ IsProjectDir(i)
        /\ fs[i].own.binaries = EditorExes
        /\ ReturnedPairAt(i, BinaryPath(DirPath(i), DevelopmentExe),
                          ProjectFilePath(i, 1))

\* C4: when the nearest qualifying ancestor holds two or more descriptors,
\* the inference fails with the ambiguity error naming that directory and
\* the start path.
C4_NearestAmbiguousFails ==
    Finished =>
        \A i \in 1..Len(fs) :
            (NearestQualifying(i) /\ IsAmbiguousDir(i)) => AmbiguityErrorAt(i)

\* C5: with no ancestor named "Engine" and no ancestor holding exactly one
\* descriptor with a reachable binary (and, as section 4.2 step 2 has it, no
\* ambiguity failure), the inference reports NotFound and raises nothing.
C5_NothingQualifiesNotFound ==
    (Finished /\ \A i \in Ancestors : ~IsEngineDir(i) /\ ~Qualifying(i)) =>
        ReturnedNone

\* C6: for a root without Binaries/Win64 the locator yields an empty sequence.
C6_MissingBinariesDirYieldsEmpty ==
    \A k \in DOMAIN locator_calls :
        ~LayoutOf(locator_calls[k].root).binaries_dir =>
            /\ Iterable(locator_calls[k].value)
            /\ locator_calls[k].value.items = <<>>

\* C7: the editor is spawned only after an inference has succeeded; an
\* invocation whose inference ends in NotFound or the ambiguity error spawns
\* nothing and exits with a non-zero status.
C7_NoSpawnWithoutResolution ==
    /\ spawned # <<>> =>
            /\ Succeeded
            /\ Len(spawned) = 1
            /\ spawned[1].editor = ret.value.editor
            /\ spawned[1].project = ret.value.project
    /\ (ReturnedNone \/ (Finished /\ ret.kind = "raise")) => spawned = <<>>
    /\ (pc = "exit" /\ (ReturnedNone \/ ret.kind = "raise")) =>
            exit_status # <<>> /\ exit_status[1] # 0

\* C7 witness: an invocation has exited after the ambiguity error.
C7_Witness ==
    /\ pc = "exit"
    /\ ret.kind = "raise"
    /\ ret.exc = "RuntimeError"
    /\ spawned = <<>>
    /\ exit_status = <<UncaughtExitStatus>>

\* C8: the descriptor of a returned result is a regular *.uproject file
\* directly in an ancestor of the start path and the only one there; a
\* result whose binary lies in an ancestor named "Engine" has no descriptor.
C8_ResultDescriptorInvariant ==
    Succeeded =>
        LET editor == ret.value.editor
            project == ret.value.project
        IN  /\ project # PyNone =>
                /\ project.kind = "uproject"
                /\ project.dir \in Ancestors
                /\ project.file \in 1..fs[project.dir].uprojects
                /\ fs[project.dir].uprojects = 1
            /\ (editor.root.kind = "dir" /\ IsEngineDir(editor.root.idx)) =>
                    project = PyNone

\* C8 witness: a result with a descriptor has been returned.
C8_Witness ==
    /\ Succeeded
    /\ ret.value.project # PyNone
    /\ fs[ret.value.project.dir].uprojects = 1

\* C9: a project directory where neither the directory nor the sibling
\* Engine yields a binary does not end the walk: it goes on outwards.
C9_FailedCandidateContinues ==
    \A i \in 1..Len(fs) :
        (Visited(i) /\ IsProjectDir(i) /\ ~HoldsBinary(fs[i].own)
            /\ ~SiblingHoldsBinary(i)) => WentOn(i)

\* C10: in diff mode, when the inference from "left" is NotFound and the
\* inference from "right" succeeds, the editor is launched exactly once with
\* the result of "right"; the "Failed to find" error is raised only when
\* "left" is NotFound and "right" yields no result either.
C10_DiffFallsBackToRight ==
    (pc = "exit" /\ parsed_args.mode = "diff") =>
        LET left == try_infer_editor_and_project(parsed_args.left)
            right == try_infer_editor_and_project(parsed_args.right)
        IN  /\ (left.kind = "return" /\ left.value = PyNone
                /\ right.kind = "return" /\ right.value # PyNone) =>
                    /\ Len(spawned) = 1
                    /\ spawned[1].editor = right.value.editor
                    /\ spawned[1].project = right.value.project
            /\ uncaught.msg = "Failed to find, based on left or right" =>
                    /\ left.kind = "return" /\ left.value = PyNone
                    /\ ~(right.kind = "return" /\ right.value # PyNone)

====
